---- MODULE Spec2Model ----
(***************************************************************************)
(* ahd_uploader.py: the form-preparation pipeline (prepare) and the        *)
(* submission with its response disambiguation (upload).                   *)
(*                                                                         *)
(* A Python str is a sequence of one-character strings, so that `in`,      *)
(* split, stem and int() are computed on the characters.  Python's None    *)
(* is the one-element tuple None, which no str equals.                     *)
(***************************************************************************)
EXTENDS Integers, Sequences, FiniteSets, TLC

VARIABLES
    pc,         \* where the running command stands
    path,       \* <media> on disk: [exists, name, is_dir, entries]
    arguments,  \* docopt's dict, as the command has changed it so far
    args0,      \* docopt's dict as supplied
    err,        \* the exception that ended the command, "none" while it runs
    calls,      \* the external invocations made so far, in order
    duration,   \* take_screenshots: float(int(get_duration(file)))
    offsets,    \* take_screenshots: the offsets, once computed
    shots,      \* take_screenshots: what take_screenshot returned, in order
    release_desc, \* prepare: what get_release_desc returned
    form,       \* prepare: the form assembled
    disk,       \* the form file: [exists, content, writes, unlinks]
    disk0,      \* the form file before the command
    response,   \* upload: the tracker's response [status_code, text, url]
    now,        \* upload: pendulum.now(), in seconds
    link,       \* upload: how get_torrent_link_from_html ended
    result      \* what the command returned

vars == <<pc, path, arguments, args0, err, calls, duration, offsets, shots,
          release_desc, form, disk, disk0, response, now, link, result>>

None == <<"None">>

----------------------------------------------------------------------------
(* Literals of the source                                                  *)

AUTO_DETECT ==        <<"A", "U", "T", "O", "-", "D", "E", "T", "E", "C", "T">>
UNKNOWN ==            <<"U", "N", "K", "N", "O", "W", "N">>
Movies ==             <<"M", "o", "v", "i", "e", "s">>
TV_Shows ==           <<"T", "V", "-", "S", "h", "o", "w", "s">>
Blu_ray ==            <<"B", "l", "u", "-", "r", "a", "y">>
HD_DVD ==             <<"H", "D", "-", "D", "V", "D">>
HDTV ==               <<"H", "D", "T", "V">>
WEB_DL ==             <<"W", "E", "B", "-", "D", "L">>
WEBRip ==             <<"W", "E", "B", "R", "i", "p">>
DTheater ==           <<"D", "T", "h", "e", "a", "t", "e", "r">>
XDCAM ==              <<"X", "D", "C", "A", "M">>
UHD_Blu_ray ==        <<"U", "H", "D", " ", "B", "l", "u", "-", "r", "a", "y">>
x264 ==               <<"x", "2", "6", "4">>
VC1_Remux ==          <<"V", "C", "-", "1", " ", "R", "e", "m", "u", "x">>
h264_Remux ==         <<"h", ".", "2", "6", "4", " ", "R", "e", "m", "u", "x">>
MPEG2_Remux ==        <<"M", "P", "E", "G", "2", " ", "R", "e", "m", "u", "x">>
h265_Remux ==         <<"h", ".", "2", "6", "5", " ", "R", "e", "m", "u", "x">>
x265 ==               <<"x", "2", "6", "5">>
Directors_Cut ==      <<"D", "i", "r", "e", "c", "t", "o", "r", "'", "s", " ", "C", "u", "t">>
Unrated ==            <<"U", "n", "r", "a", "t", "e", "d">>
Extended_Edition ==   <<"E", "x", "t", "e", "n", "d", "e", "d", " ", "E", "d", "i", "t", "i", "o", "n">>
Two_in_1 ==           <<"2", " ", "i", "n", " ", "1">>
Criterion ==          <<"T", "h", "e", " ", "C", "r", "i", "t", "e", "r", "i", "o", "n", " ",
                        "C", "o", "l", "l", "e", "c", "t", "i", "o", "n">>
Mark_S0 ==            <<".", "S", "0">>
Mark_UHD_BluRay ==    <<"U", "H", "D", ".", "B", "l", "u", "R", "a", "y">>
Mark_BluRay ==        <<"B", "l", "u", "R", "a", "y">>
Mark_H264 ==          <<"H", ".", "2", "6", "4">>
Mark_H265 ==          <<"H", ".", "2", "6", "5">>
Mark_HEVC ==          <<"H", "E", "V", "C">>
Mark_AMZN ==          <<"A", "M", "Z", "N">>
Mark_Netflix ==       <<"N", "e", "t", "f", "l", "i", "x">>
Mark_NF ==            <<".", "N", "F", ".">>
Amazon ==             <<"A", "m", "a", "z", "o", "n">>
Netflix ==            <<"N", "e", "t", "f", "l", "i", "x">>
on ==                 <<"o", "n">>
true ==               <<"t", "r", "u", "e">>

known_editions == <<Directors_Cut, Unrated, Extended_Edition, Two_in_1, Criterion>>
types          == <<Movies, TV_Shows>>
media_types    == <<Blu_ray, HD_DVD, HDTV, WEB_DL, WEBRip, DTheater, XDCAM, UHD_Blu_ray>>
codecs         == <<x264, VC1_Remux, h264_Remux, MPEG2_Remux, h265_Remux, x265>>

----------------------------------------------------------------------------
(* Python's str and pathlib operations                                     *)

\* m in s
Contains(s, m) ==
    \E i \in 1..(Len(s) - Len(m) + 1) : SubSeq(s, i, i + Len(m) - 1) = m

\* v in l, for a list l
InList(v, l) == \E i \in 1..Len(l) : l[i] = v

\* s.rfind(c) + 1: the last place of the character c in s, 0 when it has none
RFind(s, c) ==
    IF \E i \in 1..Len(s) : s[i] = c
    THEN CHOOSE i \in 1..Len(s) : s[i] = c /\ \A j \in (i + 1)..Len(s) : s[j] # c
    ELSE 0

\* PurePath.stem: the name without its last suffix
Stem(name) ==
    LET i == RFind(name, ".")
    IN  IF 1 < i /\ i < Len(name) THEN SubSeq(name, 1, i - 1) ELSE name

\* s.split('-')[-1]
AfterLastHyphen(s) == SubSeq(s, RFind(s, "-") + 1, Len(s))

\* bool(v) of a str or None
Truthy(v) == v # None /\ v # <<>>

Digits == <<"0", "1", "2", "3", "4", "5", "6", "7", "8", "9">>

IsDigit(c) == \E d \in 1..10 : Digits[d] = c

DigitVal(c) == (CHOOSE d \in 1..10 : Digits[d] = c) - 1

RECURSIVE DecVal(_)
DecVal(s) ==
    IF s = <<>> THEN 0 ELSE DecVal(SubSeq(s, 1, Len(s) - 1)) * 10 + DigitVal(s[Len(s)])

\* the decimal digits of other scripts, which int() and float() read as the
\* ASCII digits of the same value: the rows a string written here can hold
WideDigits ==
    <<
      <<"۰", "۱", "۲", "۳", "۴", "۵", "۶", "۷", "۸", "۹">>,
      <<"߀", "߁", "߂", "߃", "߄", "߅", "߆", "߇", "߈", "߉">>,
      <<"০", "১", "২", "৩", "৪", "৫", "৬", "৭", "৮", "৯">>,
      <<"૦", "૧", "૨", "૩", "૪", "૫", "૬", "૭", "૮", "૯">>,
      <<"௦", "௧", "௨", "௩", "௪", "௫", "௬", "௭", "௮", "௯">>,
      <<"೦", "೧", "೨", "೩", "೪", "೫", "೬", "೭", "೮", "೯">>,
      <<"෦", "෧", "෨", "෩", "෪", "෫", "෬", "෭", "෮", "෯">>,
      <<"໐", "໑", "໒", "໓", "໔", "໕", "໖", "໗", "໘", "໙">>,
      <<"႐", "႑", "႒", "႓", "႔", "႕", "႖", "႗", "႘", "႙">>,
      <<"០", "១", "២", "៣", "៤", "៥", "៦", "៧", "៨", "៩">>,
      <<"᧐", "᧑", "᧒", "᧓", "᧔", "᧕", "᧖", "᧗", "᧘", "᧙">>,
      <<"᪀", "᪁", "᪂", "᪃", "᪄", "᪅", "᪆", "᪇", "᪈", "᪉">>,
      <<"᪐", "᪑", "᪒", "᪓", "᪔", "᪕", "᪖", "᪗", "᪘", "᪙">>,
      <<"᮰", "᮱", "᮲", "᮳", "᮴", "᮵", "᮶", "᮷", "᮸", "᮹">>,
      <<"꣐", "꣑", "꣒", "꣓", "꣔", "꣕", "꣖", "꣗", "꣘", "꣙">>,
      <<"꧐", "꧑", "꧒", "꧓", "꧔", "꧕", "꧖", "꧗", "꧘", "꧙">>,
      <<"꧰", "꧱", "꧲", "꧳", "꧴", "꧵", "꧶", "꧷", "꧸", "꧹">>,
      <<"꯰", "꯱", "꯲", "꯳", "꯴", "꯵", "꯶", "꯷", "꯸", "꯹">>
    >>

\* s with every decimal digit as its ASCII digit, which is how int() and
\* float() take a str before they parse it
TransformDecimalToASCII(s) ==
    [i \in 1..Len(s) |->
        IF \E r \in 1..Len(WideDigits), d \in 1..10 : WideDigits[r][d] = s[i]
        THEN Digits[CHOOSE d \in 1..10 : \E r \in 1..Len(WideDigits) : WideDigits[r][d] = s[i]]
        ELSE s[i]]

\* the whitespace int() and float() allow around a number: blank, \t, \n,
\* \r, \f, \v, and of the spaces beyond ASCII the ones a string written here
\* can hold: U+0085, U+00A0, U+1680 (not U+2000..U+200A, U+2028, U+2029,
\* U+202F, U+205F, U+3000).  '\x1c'..'\x1f', which str.strip() drops, are
\* not among them: int('\x1c4') is a ValueError.
Whitespace == {" ", "\t", "\n", "\r", "\f", "", "", " ", " "}

\* s without the whitespace around the number
StripNumber(s) ==
    IF \A i \in 1..Len(s) : s[i] \in Whitespace THEN <<>>
    ELSE SubSeq(s,
                CHOOSE i \in 1..Len(s) :
                    s[i] \notin Whitespace /\ \A j \in 1..(i - 1) : s[j] \in Whitespace,
                CHOOSE i \in 1..Len(s) :
                    s[i] \notin Whitespace /\ \A j \in (i + 1)..Len(s) : s[j] \in Whitespace)

\* d without its leading zeros
DropZeros(d) ==
    IF \A i \in 1..Len(d) : d[i] = "0" THEN <<>>
    ELSE SubSeq(d, CHOOSE i \in 1..Len(d) : d[i] # "0" /\ \A j \in 1..(i - 1) : d[j] = "0",
                Len(d))

\* digits with single underscores between them: '1_000', never '_1', '1_', '1__0'
IsDigitPart(s) ==
    /\ s # <<>>
    /\ \A i \in 1..Len(s) :
          \/ IsDigit(s[i])
          \/ /\ s[i] = "_"
             /\ 1 < i /\ i < Len(s)
             /\ IsDigit(s[i - 1]) /\ IsDigit(s[i + 1])

\* int(s) of a str, base 10: surrounding whitespace, an optional sign,
\* digits with optional single underscores between them (for values an int
\* of this model holds)
int(s) ==
    LET t      == StripNumber(TransformDecimalToASCII(s))
        signed == t # <<>> /\ t[1] \in {"+", "-"}
        body   == IF signed THEN Tail(t) ELSE t
        val    == DecVal(DropZeros(SelectSeq(body, LAMBDA c : c # "_")))
    IN  IF IsDigitPart(body)
        THEN [err |-> "none", val |-> IF signed /\ t[1] = "-" THEN -val ELSE val]
        ELSE [err |-> "ValueError", val |-> 0]

\* str(k) of an int
RECURSIVE str(_)
str(k) ==
    IF k < 0 THEN <<"-">> \o str(-k)
    ELSE IF k < 10 THEN <<Digits[k + 1]>>
    ELSE str(k \div 10) \o <<Digits[(k % 10) + 1]>>

Ok(v)     == [err |-> "none", val |-> v]
Raise(e)  == [err |-> e, val |-> None]


\* `path = next(path.glob('*/'))` of a directory: the pattern ends with a
\* separator, so glob yields the directory's subdirectories only, in the order
\* the directory lists its entries; next() takes the first and raises
\* StopIteration when there is none.  A file stays itself.
FirstChild(p) ==
    IF ~p.is_dir THEN Ok(p.name)
    ELSE LET subdirs == SelectSeq(p.entries, LAMBDA entry : entry.is_dir)
         IN  IF subdirs = <<>> THEN Raise("StopIteration") ELSE Ok(subdirs[1].name)
----------------------------------------------------------------------------
(* Metadata inference: autodetect_* and preprocessing                      *)

autodetect_type(p) == IF Contains(p.name, Mark_S0) THEN TV_Shows ELSE Movies

\* the first literal of the list l that the name holds, None when none does
FirstIn(l, name) ==
    IF \E i \in 1..Len(l) : Contains(name, l[i])
    THEN l[CHOOSE i \in 1..Len(l) :
               Contains(name, l[i]) /\ \A j \in 1..(i - 1) : ~Contains(name, l[j])]
    ELSE None

autodetect_media_type(p) ==
    LET c == FirstChild(p)
    IN  IF c.err # "none" THEN c
        ELSE IF Contains(c.val, Mark_UHD_BluRay) THEN Ok(UHD_Blu_ray)
        ELSE IF Contains(c.val, Mark_BluRay) THEN Ok(Blu_ray)
        ELSE IF FirstIn(media_types, c.val) # None THEN Ok(FirstIn(media_types, c.val))
        ELSE Raise("RuntimeError")

autodetect_codec(p) ==
    LET c == FirstChild(p)
    IN  IF c.err # "none" THEN c
        ELSE IF FirstIn(codecs, c.val) # None THEN Ok(FirstIn(codecs, c.val))
        ELSE Ok(<<>>)

autodetect_group(p) ==
    LET c == FirstChild(p)
    IN  IF c.err # "none" THEN c ELSE Ok(AfterLastHyphen(Stem(c.val)))

\* `arguments[key] = f(path)`: the assignment, or the exception f raised.
\* s is the running state of preprocessing: [args, err].
Assign(s, key, r) ==
    IF r.err = "none" THEN [s EXCEPT !.args[key] = r.val] ELSE [s EXCEPT !.err = r.err]

\* line 121
pre_exists(p, s) ==
    IF s.err = "none" /\ ~p.exists THEN [s EXCEPT !.err = "AssertionError"] ELSE s

\* lines 123-124
pre_type(p, s) ==
    IF s.err = "none" /\ s.args["--type"] = AUTO_DETECT
    THEN Assign(s, "--type", Ok(autodetect_type(p)))
    ELSE s

\* lines 126-127
pre_group(p, s) ==
    IF s.err = "none" /\ s.args["--group"] = AUTO_DETECT
    THEN Assign(s, "--group", autodetect_group(p))
    ELSE s

\* lines 129-130
pre_media_type(p, s) ==
    IF s.err = "none" /\ s.args["--media-type"] = AUTO_DETECT
    THEN Assign(s, "--media-type", autodetect_media_type(p))
    ELSE s

\* the two WEB-DL rules taken in the other order
webdl_codec_swapped(name, codec) ==
    LET c1 == IF codec = x265 \/ Contains(name, Mark_H265) \/ Contains(name, Mark_HEVC)
              THEN h265_Remux ELSE codec
    IN  IF c1 = x264 \/ Contains(name, Mark_H264) THEN h264_Remux ELSE c1

\* lines 134-138: the two WEB-DL rules, one after the other
webdl_codec(name, codec) ==
    LET c1 == IF codec = x264 \/ Contains(name, Mark_H264) THEN h264_Remux ELSE codec
    IN  IF c1 = x265 \/ Contains(name, Mark_H265) \/ Contains(name, Mark_HEVC)
        THEN h265_Remux
        ELSE c1

\* the codec inferred whatever was supplied
pre_codec_always(p, s) ==
    IF s.err = "none"
    THEN LET d == Assign(s, "--codec", autodetect_codec(p))
         IN  IF d.err = "none" /\ d.args["--media-type"] = WEB_DL
             THEN [d EXCEPT !.args["--codec"] = webdl_codec(p.name, d.args["--codec"])]
             ELSE d
    ELSE s

\* lines 132-138
pre_codec(p, s) ==
    IF s.err = "none" /\ s.args["--codec"] = AUTO_DETECT
    THEN LET d == Assign(s, "--codec", autodetect_codec(p))
         IN  IF d.err = "none" /\ d.args["--media-type"] = WEB_DL
             THEN [d EXCEPT !.args["--codec"] = webdl_codec(p.name, d.args["--codec"])]
             ELSE d
    ELSE s

\* lines 140-145
pre_edition(p, s) ==
    IF s.err = "none" /\ s.args["--type"] = Movies
    THEN LET e1 == IF Contains(p.name, Mark_AMZN)
                   THEN Amazon ELSE s.args["--special-edition"]
             e2 == IF Contains(p.name, Mark_Netflix) \/ Contains(p.name, Mark_NF)
                   THEN Netflix ELSE e1
         IN  [s EXCEPT !.args["--special-edition"] = e2]
    ELSE s

\* the three assertions left out
pre_closed_sets_skipped(s) == s

\* lines 147-149
pre_closed_sets(s) ==
    IF s.err = "none"
       /\ ~(/\ InList(s.args["--type"], types)
            /\ InList(s.args["--codec"], codecs)
            /\ InList(s.args["--media-type"], media_types))
    THEN [s EXCEPT !.err = "AssertionError"]
    ELSE s

\* lines 151-152
pre_num_screens(s) ==
    IF s.err # "none" THEN s
    ELSE LET n == int(s.args["--num-screens"])
         IN  IF n.err # "none" THEN [s EXCEPT !.err = n.err]
             ELSE IF n.val = 0 THEN [s EXCEPT !.err = "AssertionError"]
             ELSE [s EXCEPT !.args["--num-screens"] = n.val]

\* preprocessing(path, arguments): the arguments as it leaves them, and the
\* exception it raised ("none" when it returned)
preprocessing(p, a) ==
    pre_num_screens(
      pre_closed_sets(
        pre_edition(p,
          pre_codec(p,
            pre_media_type(p,
              pre_group(p,
                pre_type(p,
                  pre_exists(p, [args |-> a, err |-> "none"]))))))))

----------------------------------------------------------------------------
(* The inputs drawn                                                        *)

MaxNumArg == 1

Dot(s) == <<".">> \o s

NameEnd == <<"-", "G", ".", "m", "k", "v">>

Titles == {<<"M">>, <<"T", ".", "S", "0", "1">>}

SourceMarks == {<<>>, Dot(Mark_BluRay), Dot(Mark_UHD_BluRay), Dot(WEB_DL)}

CodecMarks ==
    {<<>>, Dot(x264), Dot(x265), Dot(Mark_H264), Dot(Mark_HEVC),
     Dot(x264) \o Dot(Mark_HEVC), Dot(x265) \o Dot(Mark_H264),
     Dot(Mark_H264) \o Dot(Mark_H265)}

ServiceMarks == {Dot(Mark_AMZN), <<".", "N", "F">>, Dot(Mark_Netflix)}

FileNames ==
    {t \o s \o c \o NameEnd : t \in Titles, s \in SourceMarks, c \in CodecMarks}
    \cup {<<"M">> \o Dot(WEB_DL) \o Dot(x264) \o v \o NameEnd : v \in ServiceMarks}

File(name) == [exists |-> TRUE, name |-> name, is_dir |-> FALSE, entries |-> <<>>]

\* a directory and its entries, each [name, is_dir], in the order it lists them
Dir(name, entries) ==
    [exists |-> TRUE, name |-> name, is_dir |-> TRUE, entries |-> entries]

FileEntry(name) == [name |-> name, is_dir |-> FALSE]

DirEntry(name) == [name |-> name, is_dir |-> TRUE]

DirNames == {<<"M">> \o Dot(WEB_DL) \o Dot(Mark_H264) \o <<"-", "G">>, <<"M", "-", "G">>}

\* an empty directory; a release directory holding files only; directories
\* holding a subdirectory, alone or after a file
DirEntries ==
    {<<>>,
     <<FileEntry(<<"M">> \o Dot(WEB_DL) \o Dot(x265) \o NameEnd)>>,
     <<FileEntry(<<"M">> \o Dot(Mark_BluRay) \o NameEnd), FileEntry(<<"n", "f", "o">>)>>,
     <<DirEntry(<<"M">> \o Dot(WEB_DL) \o Dot(x265) \o <<"-", "G">>)>>,
     <<FileEntry(<<"M">> \o Dot(WEB_DL) \o Dot(x265) \o NameEnd),
       DirEntry(<<"M">> \o Dot(Mark_BluRay) \o Dot(x264) \o <<"-", "G">>)>>}

DirPaths == {Dir(d, c) : d \in DirNames, c \in DirEntries}

Missing == [exists |-> FALSE, name |-> <<"M">> \o NameEnd, is_dir |-> FALSE, entries |-> <<>>]

Paths == {File(n) : n \in FileNames} \cup DirPaths \cup {Missing}

NumScreensArgs == {str(k) : k \in (-1)..MaxNumArg} \cup {<<"x">>}

Arguments(ty, me, co, gr, ed, us, nu) ==
    ("--type" :> ty) @@ ("--media-type" :> me) @@ ("--codec" :> co) @@ ("--group" :> gr)
    @@ ("--special-edition" :> ed) @@ ("--user-release" :> us) @@ ("--num-screens" :> nu)
    @@ ("--imdb" :> <<"t", "t", "1">>) @@ ("--passkey" :> <<"k">>)

PreArguments ==
    {Arguments(ty, me, co, gr, ed, FALSE, nu) :
        ty \in {AUTO_DETECT, Movies, TV_Shows, <<"X">>},
        me \in {AUTO_DETECT, WEB_DL, Blu_ray, <<"X">>},
        co \in {AUTO_DETECT, x264, <<"X">>},
        gr \in {AUTO_DETECT, <<"G", "2">>},
        ed \in {None, Unrated, <<"F", "a", "n">>},
        nu \in NumScreensArgs}

\* a form file is [exists, content, writes, unlinks], writes and unlinks
\* counting the calls of pickle.dump and of unlink() on it; a form is a dict
NoForm == ("submit" :> <<>>)

NoFile == [exists |-> FALSE, content |-> NoForm, writes |-> 0, unlinks |-> 0]

NoPage == [userid |-> None, authkey |-> None, passkey |-> None, rows |-> <<>>]

NoResponse == [status_code |-> 0, text |-> NoPage, url |-> <<>>]

\* what every command starts from, whatever its inputs
Fresh ==
    /\ err = "none"
    /\ calls = <<>>
    /\ duration = None
    /\ offsets = <<>>
    /\ shots = <<>>
    /\ release_desc = None
    /\ form = NoForm
    /\ response = NoResponse
    /\ now = 0
    /\ link = Raise("not called")
    /\ result = None

----------------------------------------------------------------------------
(* preprocessing, applied to drawn inputs                                  *)

InitPre ==
    /\ pc = "preprocessing"
    /\ path \in Paths
    /\ args0 \in PreArguments
    /\ arguments = args0
    /\ disk = NoFile
    /\ disk0 = disk
    /\ Fresh

\* create_upload_form, line 252
Preprocess ==
    /\ pc = "preprocessing"
    /\ LET r == preprocessing(path, arguments)
       IN  /\ arguments' = r.args
           /\ err' = r.err
           /\ pc' = IF r.err = "none" THEN "create_torrent" ELSE "raised"
    /\ UNCHANGED <<path, args0, calls, duration, offsets, shots, release_desc, form,
                   disk, disk0, response, now, link, result>>

NextPre == Preprocess

SpecPre == InitPre /\ [][NextPre]_vars

(***************************************************************************)
(* IEEE-754 binary64 arithmetic, as far as line 203 of ahd_uploader.py     *)
(* uses it:  int(1 / (num_screens + 1) * o * duration).                    *)
(* A positive double is [m, e] with value m * 2^e and 2^52 <= m < 2^53;    *)
(* m is held as little-endian limbs in base 2^16, every intermediate       *)
(* value staying below 2^31.  Zero is [m |-> <<0>>, e |-> 0].              *)
(***************************************************************************)
LimbBase == 2^16

\* F of the value x, which is computed once however often F reads it
With(x, F(_)) == F(x)

\* a without its leading zero limbs
BigNorm(a) ==
    IF \A i \in 1..Len(a) : a[i] = 0 THEN <<0>>
    ELSE SubSeq(a, 1, CHOOSE i \in 1..Len(a) :
                          a[i] # 0 /\ \A j \in (i + 1)..Len(a) : a[j] = 0)

\* the limbs a[lo..hi] times the small integer k, plus the carry coming in:
\* the limbs of the product and the carry going out (the range is halved so
\* that long numbers stay shallow)
RECURSIVE BigMulRange(_, _, _, _, _)
BigMulRange(a, k, lo, hi, carry) ==
    IF lo > hi THEN [out |-> <<>>, carry |-> carry]
    ELSE IF lo = hi
    THEN LET t == a[lo] * k + carry
         IN  [out |-> <<t % LimbBase>>, carry |-> t \div LimbBase]
    ELSE With(BigMulRange(a, k, lo, (lo + hi) \div 2, carry), LAMBDA low :
         With(BigMulRange(a, k, (lo + hi) \div 2 + 1, hi, low.carry), LAMBDA high :
         [out |-> low.out \o high.out, carry |-> high.carry]))

\* a * k + carry, for k and carry below 2^15
BigMulCarry(a, k, carry) ==
    With(BigMulRange(a, k, 1, Len(a), carry), LAMBDA p : BigNorm(p.out \o <<p.carry>>))

\* long division of the limbs a[lo..hi] by the small integer q, most
\* significant limb first, rem < q being what the limbs above left over
RECURSIVE BigDivRange(_, _, _, _, _)
BigDivRange(a, q, lo, hi, rem) ==
    IF lo > hi THEN [q |-> <<>>, r |-> rem]
    ELSE IF lo = hi
    THEN LET t == rem * LimbBase + a[lo]
         IN  [q |-> <<t \div q>>, r |-> t % q]
    ELSE With(BigDivRange(a, q, (lo + hi) \div 2 + 1, hi, rem), LAMBDA high :
         IF high.r < q
         THEN With(BigDivRange(a, q, lo, (lo + hi) \div 2, high.r), LAMBDA low :
              [q |-> low.q \o high.q, r |-> low.r])
         ELSE [q |-> <<>>, r |-> rem])

\* a \div q and a % q, for q below 2^15
BigDivRem(a, q, rem) == BigDivRange(a, q, 1, Len(a), rem)

RECURSIVE BitLen(_)
BitLen(k) == IF k = 0 THEN 0 ELSE 1 + BitLen(k \div 2)

BigBitLen(a) == With(BigNorm(a), LAMBDA n : 16 * (Len(n) - 1) + BitLen(n[Len(n)]))

BigBit(a, i) ==
    IF i \div 16 + 1 > Len(a) THEN 0 ELSE (a[i \div 16 + 1] \div 2^(i % 16)) % 2

\* a with its s lowest bits dropped (truncation)
BigShr(a, s) ==
    With(IF s \div 16 >= Len(a) THEN <<0>> ELSE SubSeq(a, s \div 16 + 1, Len(a)), LAMBDA b :
    BigNorm([i \in 1..Len(b) |->
                (b[i] \div 2^(s % 16))
                + (IF i < Len(b) THEN (b[i + 1] % 2^(s % 16)) * 2^(16 - (s % 16)) ELSE 0)]))

RECURSIVE BigInc(_)
BigInc(a) ==
    IF a = <<>> THEN <<1>>
    ELSE IF Head(a) + 1 < LimbBase THEN <<Head(a) + 1>> \o Tail(a)
    ELSE <<0>> \o BigInc(Tail(a))

\* a / 2^s rounded to nearest, ties to even
BigShrRound(a, s) ==
    With(BigShr(a, s), LAMBDA q :
    IF /\ s > 0
       /\ BigBit(a, s - 1) = 1
       /\ (\E i \in 0..(s - 2) : BigBit(a, i) = 1) \/ BigBit(q, 0) = 1
    THEN BigInc(q) ELSE q)

\* the double nearest to big * 2^e, for big of at least 53 bits
FRound(big, e) ==
    With(BigBitLen(big) - 53, LAMBDA s :
    With(BigShrRound(big, s), LAMBDA m :
    IF BigBitLen(m) > 53 THEN [m |-> BigShr(m, 1), e |-> e + s + 1]
                         ELSE [m |-> m, e |-> e + s]))

\* 1 / q for an int q >= 1 (Python's true division of two ints)
FRecip(q) ==
    With(IF q = 2^(BitLen(q) - 1) THEN 51 + BitLen(q) ELSE 52 + BitLen(q), LAMBDA s :
    With(BigDivRem([i \in 1..(s \div 16 + 1) |->
                       IF i = s \div 16 + 1 THEN 2^(s % 16) ELSE 0], q, 0), LAMBDA d :
    With(BigNorm(d.q), LAMBDA qt :
    FRound(IF 2 * d.r > q \/ (2 * d.r = q /\ BigBit(qt, 0) = 1) THEN BigInc(qt) ELSE qt,
           -s))))

\* the limbs lo..hi of a + b, and the carry going out
RECURSIVE BigAddRange(_, _, _, _, _)
BigAddRange(a, b, lo, hi, carry) ==
    IF lo > hi THEN [out |-> <<>>, carry |-> carry]
    ELSE IF lo = hi
    THEN LET t == (IF lo <= Len(a) THEN a[lo] ELSE 0)
                  + (IF lo <= Len(b) THEN b[lo] ELSE 0) + carry
         IN  [out |-> <<t % LimbBase>>, carry |-> t \div LimbBase]
    ELSE With(BigAddRange(a, b, lo, (lo + hi) \div 2, carry), LAMBDA low :
         With(BigAddRange(a, b, (lo + hi) \div 2 + 1, hi, low.carry), LAMBDA high :
         [out |-> low.out \o high.out, carry |-> high.carry]))

BigAdd(a, b) ==
    With(BigAddRange(a, b, 1, IF Len(a) > Len(b) THEN Len(a) ELSE Len(b), 0), LAMBDA p :
    BigNorm(p.out \o <<p.carry>>))

\* a * 2^s
BigShl(a, s) == BigMulCarry([i \in 1..(s \div 16) |-> 0] \o a, 2^(s % 16), 0)

\* a * k for an int k >= 0, taken fifteen bits at a time
BigMulInt(a, k) ==
    LET k0 == k % 2^15
        k1 == (k \div 2^15) % 2^15
        k2 == k \div 2^30
    IN  BigAdd(BigMulCarry(a, k0, 0),
               BigShl(BigAdd(BigMulCarry(a, k1, 0), BigShl(BigMulCarry(a, k2, 0), 15)), 15))

\* x * k for a double x and an int k >= 0 (a double holds every int of this
\* model exactly)
FMulInt(x, k) ==
    IF k = 0 \/ x.m = <<0>> THEN [m |-> <<0>>, e |-> 0] ELSE FRound(BigMulInt(x.m, k), x.e)

RECURSIVE BigToInt(_)
BigToInt(a) == IF a = <<>> THEN 0 ELSE Head(a) + LimbBase * BigToInt(Tail(a))

\* int(x) of a double x >= 0: truncation (for values an int of this model holds)
FToInt(x) ==
    IF x.e >= 0 THEN BigToInt(BigShl(x.m, x.e)) ELSE BigToInt(BigShr(x.m, -x.e))

\* acc * 10^(hi - lo + 1) + the integer the digits d[lo..hi] write
RECURSIVE BigDigitsRange(_, _, _, _)
BigDigitsRange(d, lo, hi, acc) ==
    IF hi - lo < 4
    THEN BigMulCarry(acc, 10^(hi - lo + 1), DecVal(SubSeq(d, lo, hi)))
    ELSE With(BigDigitsRange(d, lo, (lo + hi) \div 2, acc), LAMBDA left :
         IF Len(left) > 0 THEN BigDigitsRange(d, (lo + hi) \div 2 + 1, hi, left) ELSE <<0>>)

\* a * 10^n
RECURSIVE BigScale10(_, _)
BigScale10(a, n) ==
    IF a = <<0>> THEN a
    ELSE IF n <= 4 THEN BigMulCarry(a, 10^n, 0)
    ELSE With(BigScale10(a, n \div 2), LAMBDA half :
         IF Len(half) > 0 THEN BigScale10(half, n - n \div 2) ELSE <<0>>)

\* a \div 10^n, and whether anything was left over
RECURSIVE BigDiv10(_, _)
BigDiv10(a, n) ==
    IF a = <<0>> THEN [q |-> a, sticky |-> FALSE]
    ELSE IF n <= 4
    THEN With(BigDivRem(a, 10^n, 0), LAMBDA d : [q |-> BigNorm(d.q), sticky |-> d.r # 0])
    ELSE With(BigDiv10(a, n \div 2), LAMBDA first :
         IF first.sticky THEN [q |-> BigDiv10(first.q, n - n \div 2).q, sticky |-> TRUE]
                         ELSE BigDiv10(first.q, n - n \div 2))

Finite(neg, m, e) == [kind |-> "finite", neg |-> neg, m |-> m, e |-> e]

Infinite(neg) == [kind |-> "inf", neg |-> neg, m |-> <<0>>, e |-> 0]

NaN(neg) == [kind |-> "nan", neg |-> neg, m |-> <<0>>, e |-> 0]

\* the double nearest to big * 2^e (ties to even), for big of at least 55
\* bits whose lowest bit stands for everything below it: 53 bits of
\* precision, fewer below 2^-1022, infinity from 2^1024 on
FNearest(neg, big, e) ==
    With(BigBitLen(big), LAMBDA bits :
    With(IF bits + e - 53 > -1074 THEN bits + e - 53 ELSE -1074, LAMBDA q :
    With(IF q - e > bits THEN <<0>> ELSE BigShrRound(big, q - e), LAMBDA m :
    With(BigBitLen(m), LAMBDA mbits :
    IF m = <<0>> THEN Finite(neg, <<0>>, 0)
    ELSE IF mbits + q > 1024 THEN Infinite(neg)
    ELSE IF mbits > 53 THEN Finite(neg, BigShr(m, 1), q + 1)
    ELSE Finite(neg, m, q)))))

\* the double nearest to digits * 10^E, digits of at least one digit
DecimalToDouble(neg, digits, E) ==
    With(BigDigitsRange(digits, 1, Len(digits), <<0>>), LAMBDA N :
    IF N = <<0>> THEN Finite(neg, <<0>>, 0)
    ELSE IF E >= 0
    THEN FNearest(neg, BigShl(BigScale10(N, E), 67), -67)
    ELSE With(BigDiv10(BigShl(N, 66 + 4 * (-E)), -E), LAMBDA d :
         FNearest(neg, BigMulCarry(d.q, 2, IF d.sticky THEN 1 ELSE 0), -67 - 4 * (-E))))
----------------------------------------------------------------------------
(* Artifact producer and screenshot pipeline                               *)

LowerCase(c) ==
    CASE c = "A" -> "a" [] c = "E" -> "e" [] c = "F" -> "f" [] c = "I" -> "i"
      [] c = "N" -> "n" [] c = "T" -> "t" [] c = "Y" -> "y" [] OTHER -> c

\* the place of the first of the characters cs in s, 0 when it holds none
Find(s, cs) ==
    IF \E i \in 1..Len(s) : s[i] \in cs
    THEN CHOOSE i \in 1..Len(s) : s[i] \in cs /\ \A j \in 1..(i - 1) : s[j] \notin cs
    ELSE 0

\* float(s) of a str: surrounding whitespace, an optional sign, then inf,
\* infinity or nan in any case, or a decimal number: digits, optionally a
\* point and digits (one side may be empty), optionally an exponent; single
\* underscores between digits.  The value is the nearest double.  The
\* stages pass on what they have taken off the string.
\* the digits from the first that is not zero, the number of those after
\* the point, and the digits of the exponent: the digits up to the last
\* that is not zero are scaled by the exponent, less the places after the
\* point, plus the zeros left off; an exponent of more than nine digits
\* counts as 1100000000.  A number of 10^310 or more is infinite, one
\* below 10^-330 is zero.
float_value(neg, digits, fracn, eneg, edigs) ==
    LET last == CHOOSE i \in 1..Len(digits) :
                    digits[i] # "0" /\ \A j \in (i + 1)..Len(digits) : digits[j] = "0"
        x    == IF Len(edigs) > 9 THEN 1100000000 ELSE DecVal(edigs)
        E    == (IF eneg THEN -x ELSE x) - fracn + (Len(digits) - last)
    IN  IF digits = <<>> THEN Ok(Finite(neg, <<0>>, 0))
        ELSE IF last + E > 310 THEN Ok(Infinite(neg))
        ELSE IF last + E < -330 THEN Ok(Finite(neg, <<0>>, 0))
        ELSE Ok(DecimalToDouble(neg, SubSeq(digits, 1, last), E))

\* the mantissa with the place pp of its point, and the exponent's digits
float_fields(neg, mant, pp, has_exp, eneg, ebody) ==
    LET whole == IF pp = 0 THEN mant ELSE SubSeq(mant, 1, pp - 1)
        frac  == IF pp = 0 THEN <<>> ELSE SubSeq(mant, pp + 1, Len(mant))
    IN  IF ~(/\ whole \o frac # <<>>
             /\ whole = <<>> \/ IsDigitPart(whole)
             /\ frac = <<>> \/ IsDigitPart(frac)
             /\ ~has_exp \/ IsDigitPart(ebody))
        THEN Raise("ValueError")
        ELSE float_value(neg, DropZeros(SelectSeq(whole \o frac, LAMBDA c : c # "_")),
                         Len(SelectSeq(frac, LAMBDA c : c # "_")), eneg,
                         DropZeros(SelectSeq(ebody, LAMBDA c : c # "_")))

\* the number after its sign, with the place ep of its exponent mark
float_decimal(neg, body, ep) ==
    LET mant  == IF ep = 0 THEN body ELSE SubSeq(body, 1, ep - 1)
        exps  == IF ep = 0 THEN <<>> ELSE SubSeq(body, ep + 1, Len(body))
        esign == exps # <<>> /\ exps[1] \in {"+", "-"}
    IN  float_fields(neg, mant, Find(mant, {"."}), ep # 0, esign /\ exps[1] = "-",
                     IF esign THEN Tail(exps) ELSE exps)

float_unsigned(neg, body) ==
    LET word == [i \in 1..Len(body) |-> LowerCase(body[i])]
    IN  IF word \in {<<"i", "n", "f">>, <<"i", "n", "f", "i", "n", "i", "t", "y">>}
        THEN Ok(Infinite(neg))
        ELSE IF word = <<"n", "a", "n">>
        THEN Ok(NaN(neg))
        ELSE float_decimal(neg, body, Find(body, {"e", "E"}))

float(s) ==
    With(StripNumber(TransformDecimalToASCII(s)), LAMBDA t :
    With(t # <<>> /\ t[1] \in {"+", "-"}, LAMBDA signed :
    float_unsigned(signed /\ t[1] = "-", IF signed THEN Tail(t) ELSE t)))

\* what get_duration returns for a non-zero exit: the exception, not raised
RuntimeError == [kind |-> "RuntimeError", neg |-> FALSE, m |-> <<0>>, e |-> 0]

\* int(x) of what get_duration returned: of a float, truncation towards
\* zero, no int for nan and the infinities; of an exception, a TypeError
int_of_float(x) ==
    IF x.kind = "RuntimeError" THEN Raise("TypeError")
    ELSE IF x.kind = "nan" THEN Raise("ValueError")
    ELSE IF x.kind = "inf" THEN Raise("OverflowError")
    ELSE Ok(IF x.neg THEN -FToInt(x) ELSE FToInt(x))

\* the offsets taken over range(0, num_screens)
compute_offsets_from_zero(dur, num_screens) ==
    [o \in 1..num_screens |->
        IF dur < 0 THEN -FToInt(FMulInt(FMulInt(FRecip(num_screens + 1), o - 1), -dur))
                   ELSE FToInt(FMulInt(FMulInt(FRecip(num_screens + 1), o - 1), dur))]

\* line 203: [int(1 / (num_screens + 1) * o * duration) for o in range(1, num_screens + 1)]
\* with duration = float(int(get_duration(file))), a whole number of seconds;
\* a product and its negative round alike, and int() truncates towards zero
compute_offsets(dur, num_screens) ==
    [o \in 1..num_screens |->
        IF dur < 0 THEN -FToInt(FMulInt(FMulInt(FRecip(num_screens + 1), o), -dur))
                   ELSE FToInt(FMulInt(FMulInt(FRecip(num_screens + 1), o), dur))]

Call(tool, rc, returned) == [tool |-> tool, rc |-> rc, returned |-> returned]

Raised(e) ==
    /\ err' = e
    /\ pc' = "raised"

\* subprocess.run / check_output of an argument list: a tool that cannot be
\* started is a FileNotFoundError of the call and no invocation; one that
\* ran has an exit code
NotStarted ==
    /\ calls' = calls
    /\ Raised("FileNotFoundError")

\* create_torrent, lines 155-166, and the torrent read back at line 257
CreateTorrent ==
    /\ pc = "create_torrent"
    /\ \/ NotStarted
       \/ \E rc \in {0, 1}, written \in BOOLEAN :
             /\ calls' = Append(calls, Call("mktorrent", rc, rc = 0))
             /\ IF rc # 0 THEN Raised("RuntimeError")
                ELSE IF ~written THEN Raised("FileNotFoundError")
                ELSE pc' = "get_mediainfo" /\ err' = err
    /\ UNCHANGED <<path, arguments, args0, duration, offsets, shots, release_desc, form,
                   disk, disk0, response, now, link, result>>

\* get_mediainfo, lines 169-172
GetMediainfo ==
    /\ pc = "get_mediainfo"
    /\ IF FirstChild(path).err # "none"
       THEN Raised(FirstChild(path).err) /\ calls' = calls
       ELSE \/ NotStarted
            \/ \E rc \in {0, 1} :
                  /\ calls' = Append(calls, Call("mediainfo", rc, rc = 0))
                  /\ IF rc # 0 THEN Raised("CalledProcessError")
                               ELSE pc' = "get_duration" /\ err' = err
    /\ UNCHANGED <<path, arguments, args0, duration, offsets, shots, release_desc, form,
                   disk, disk0, response, now, link, result>>

MaxDuration == 14

\* what ffprobe may print: a line with a duration of six decimals, or with
\* no number
DurationOutputs ==
    {str(d) \o <<".">> \o f \o <<"\n">> : d \in 0..MaxDuration,
                                          f \in {<<"0", "0", "0", "0", "0", "0">>,
                                                 <<"9", "0", "0", "0", "0", "0">>}}
    \cup {<<"N", "/", "A", "\n">>}

\* get_duration, lines 175-183, of an ffprobe that ran: exit 127 raises, any
\* other non-zero exit *returns* a RuntimeError, and float() takes the output
get_duration(rc, out) ==
    IF rc = 127 THEN Raise("ValueError")
    ELSE IF rc # 0 THEN Ok(RuntimeError)
    ELSE float(out)

\* take_screenshots, lines 198-203, from int() of what get_duration returned
StartScreenshots(d) ==
    IF d.err # "none"
    THEN /\ Raised(d.err)
         /\ UNCHANGED <<duration, offsets>>
    ELSE /\ duration' = d.val
         /\ offsets' = compute_offsets(d.val, arguments["--num-screens"])
         /\ err' = err
         /\ pc' = IF arguments["--num-screens"] >= 1 THEN "take_screenshot"
                                                      ELSE "upload_screenshots"

\* an ffprobe that ran, and what get_duration made of it
Probed(rc, g) ==
    /\ calls' = Append(calls, Call("ffprobe", rc, g.err = "none"))
    /\ StartScreenshots(IF g.err = "none" THEN int_of_float(g.val) ELSE g)

\* get_release_desc, lines 213-214, and take_screenshots up to its offsets,
\* lines 198-203, with get_duration
GetDuration ==
    /\ pc = "get_duration"
    /\ IF FirstChild(path).err # "none"
       THEN /\ Raised(FirstChild(path).err)
            /\ UNCHANGED <<calls, duration, offsets>>
       ELSE \/ NotStarted /\ UNCHANGED <<duration, offsets>>
            \/ \E rc \in {0, 1, 127}, out \in DurationOutputs : Probed(rc, get_duration(rc, out))
    /\ UNCHANGED <<path, arguments, args0, shots, release_desc, form,
                   disk, disk0, response, now, link, result>>

\* take_screenshot, lines 186-194, for the next offset of line 204: exit 127
\* raises, any other non-zero exit *returns* a RuntimeError into the list and
\* exit 0 returns the path; with either, ffmpeg may or may not have saved a
\* frame at that path
TakeScreenshot ==
    /\ pc = "take_screenshot"
    /\ Len(shots) < Len(offsets)
    /\ \/ NotStarted /\ shots' = shots
       \/ \E rc \in {0, 1, 127}, saved \in BOOLEAN :
             LET offset == offsets[Len(shots) + 1]
             IN  IF rc = 127
                 THEN /\ calls' = Append(calls, Call("ffmpeg", rc, FALSE))
                      /\ Raised("ValueError")
                      /\ shots' = shots
                 ELSE /\ calls' = Append(calls, Call("ffmpeg", rc, TRUE))
                      /\ shots' = Append(shots,
                                         [kind   |-> IF rc = 0 THEN "path" ELSE "RuntimeError",
                                          saved  |-> saved,
                                          offset |-> offset])
                      /\ err' = err
                      /\ pc' = IF Len(shots) + 1 = Len(offsets)
                               THEN "upload_screenshots" ELSE "take_screenshot"
    /\ UNCHANGED <<path, arguments, args0, duration, offsets, release_desc, form,
                   disk, disk0, response, now, link, result>>

\* the markup the gallery gives back for one image
bbcode(shot) == <<"[">> \o str(shot.offset) \o <<"]">>

RECURSIVE Join(_)
Join(l) == IF l = <<>> THEN <<>> ELSE Head(l) \o Join(Tail(l))

\* line 187: the frame's path is made of the file's stem and the offset, so
\* equal offsets share one path, in a directory that line 200 emptied; a frame
\* is there when some ffmpeg run for that offset saved one
screenshot_path_exists(offset) ==
    \E j \in 1..Len(shots) : shots[j].offset = offset /\ shots[j].saved

\* upload_screenshots, lines 207-210, and the rest of get_release_desc,
\* lines 216-219: the files are opened in order before any POST, Path(f) of a
\* RuntimeError being a TypeError and a path without a frame a
\* FileNotFoundError
UploadScreenshots ==
    /\ pc = "upload_screenshots"
    /\ IF \E i \in 1..Len(shots) :
             shots[i].kind # "path" \/ ~screenshot_path_exists(shots[i].offset)
       THEN LET opened(i) == /\ shots[i].kind = "path"
                             /\ screenshot_path_exists(shots[i].offset)
                first == CHOOSE i \in 1..Len(shots) :
                             ~opened(i) /\ \A j \in 1..(i - 1) : opened(j)
            IN  /\ Raised(IF shots[first].kind # "path" THEN "TypeError"
                                                        ELSE "FileNotFoundError")
                /\ UNCHANGED <<calls, release_desc>>
       ELSE \E reply \in {"files", "no files", "no reply"} :
               /\ calls' = Append(calls, Call("gallery", 0, reply # "no reply"))
               /\ IF reply = "no reply"
                  THEN Raised("ConnectionError") /\ release_desc' = release_desc
                  ELSE IF reply = "no files"
                  THEN Raised("ValueError") /\ release_desc' = release_desc
                  ELSE /\ release_desc' = Join([i \in 1..Len(shots) |-> bbcode(shots[i])])
                       /\ err' = err
                       /\ pc' = "dump"
    /\ UNCHANGED <<path, arguments, args0, duration, offsets, shots, form, disk, disk0,
                   response, now, link, result>>

MaxScreens == 6

\* get_release_desc on a file, after preprocessing
InitDesc ==
    /\ pc = "get_duration"
    /\ path = File(<<"M">> \o NameEnd)
    /\ \E n \in 1..MaxScreens : args0 = Arguments(Movies, Blu_ray, x264, <<"G">>, None, FALSE, n)
    /\ arguments = args0
    /\ disk = NoFile
    /\ disk0 = disk
    /\ Fresh

NextDesc == GetDuration \/ TakeScreenshot \/ UploadScreenshots

SpecDesc == InitDesc /\ [][NextDesc]_vars

----------------------------------------------------------------------------
(* Form assembler: create_upload_form                                      *)

\* form[key] = (None, value)
SetField(f, key, value) == (key :> value) @@ f

TorrentBytes == <<"d", "8", ":", "a", "n", "n", "o", "u", "n", "c", "e">>

MediaReport == <<"G", "e", "n", "e", "r", "a", "l">>

\* lines 256-268 (each field's second component; file_input's is the torrent's bytes)
base_form(a, desc) ==
    ("submit" :> true) @@ ("file_input" :> TorrentBytes) @@ ("nfo_input" :> <<>>)
    @@ ("type" :> a["--type"]) @@ ("imdblink" :> a["--imdb"]) @@ ("file_media" :> <<>>)
    @@ ("pastelog" :> MediaReport) @@ ("group" :> a["--group"])
    @@ ("remaster_title" :> Directors_Cut) @@ ("othereditions" :> <<>>)
    @@ ("media" :> a["--media-type"]) @@ ("encoder" :> a["--codec"])
    @@ ("release_desc" :> desc)

\* lines 269-271
form_unknown_group(a, f) ==
    IF a["--group"] = UNKNOWN
    THEN SetField(SetField(f, "unknown_group", on), "group", <<>>)
    ELSE f

\* lines 272-273
form_user_release(a, f) ==
    IF a["--user-release"] THEN SetField(f, "user", on) ELSE f

\* every label put into the remaster title
form_special_edition_title(a, f) ==
    IF Truthy(a["--special-edition"])
    THEN SetField(SetField(f, "remaster", on), "remaster_title", a["--special-edition"])
    ELSE f

\* lines 274-280
form_special_edition(a, f) ==
    IF Truthy(a["--special-edition"])
    THEN IF ~InList(a["--special-edition"], known_editions)
         THEN SetField(SetField(SetField(f, "remaster", on),
                                "othereditions", a["--special-edition"]),
                       "unknown", on)
         ELSE SetField(SetField(f, "remaster", on), "remaster_title", a["--special-edition"])
    ELSE f

assemble_form(a, desc) ==
    form_special_edition(a, form_user_release(a, form_unknown_group(a, base_form(a, desc))))

\* lines 256-283, once every call in the dict display has returned:
\* the overrides, then pickle.dump into open(<output_form>, 'wb')
DumpForm ==
    /\ pc = "dump"
    /\ form' = assemble_form(arguments, release_desc)
    /\ \E opened \in BOOLEAN :
          IF opened
          THEN /\ disk' = [disk EXCEPT !.exists = TRUE, !.content = form',
                                       !.writes = disk.writes + 1]
               /\ err' = err
               /\ pc' = "done"
          ELSE /\ disk' = disk
               /\ Raised("OSError")
    /\ UNCHANGED <<path, arguments, args0, calls, duration, offsets, shots, release_desc,
                   disk0, response, now, link, result>>

\* a form file left by an earlier prepare
OldFile == [exists |-> TRUE, content |-> ("submit" :> true), writes |-> 0, unlinks |-> 0]

PreparePaths ==
    {File(<<"M">> \o Dot(WEB_DL) \o Dot(x264) \o NameEnd),
     File(<<"M">> \o Dot(WEB_DL) \o Dot(x264) \o Dot(Mark_AMZN) \o NameEnd),
     File(<<"M">> \o NameEnd),
     Dir(<<"M", "-", "G">>, <<FileEntry(<<"M">> \o Dot(Mark_BluRay) \o NameEnd)>>),
     Dir(<<"M", "-", "G">>,
         <<FileEntry(<<"n", "f", "o">>),
           DirEntry(<<"M">> \o Dot(Mark_BluRay) \o Dot(x264) \o <<"-", "G">>)>>)}

PrepareArguments ==
    {Arguments(AUTO_DETECT, me, co, gr, ed, us, nu) :
        me \in {AUTO_DETECT, Blu_ray},
        co \in {AUTO_DETECT, x264, <<"X">>},
        gr \in {AUTO_DETECT, UNKNOWN},
        ed \in {None, <<>>, Unrated, <<"F", "a", "n">>},
        us \in BOOLEAN,
        nu \in NumScreensArgs}

\* the prepare command
InitPrepare ==
    /\ pc = "preprocessing"
    /\ path \in PreparePaths
    /\ args0 \in PrepareArguments
    /\ arguments = args0
    /\ disk \in {NoFile, OldFile}
    /\ disk0 = disk
    /\ Fresh

NextPrepare ==
    \/ Preprocess
    \/ CreateTorrent
    \/ GetMediainfo
    \/ GetDuration
    \/ TakeScreenshot
    \/ UploadScreenshots
    \/ DumpForm

SpecPrepare == InitPrepare /\ [][NextPrepare]_vars

----------------------------------------------------------------------------
(* Submission client: upload_command and get_torrent_link_from_html        *)

MaxRows == 2
MaxAge == 2
MaxAhead == 2

\* the minute pendulum.now() falls in, counted from the page's earliest title
NowMinute == MaxAge

Me == <<"7">>

Other == <<"8">>

AuthKey == <<"a", "k">>

PassKey == <<"p", "k">>

\* lines 243-245, the fixed prefix of the URL left out
download_link(torrent_id, authkey, passkey) ==
    <<"i", "d", "=">> \o torrent_id \o <<"&", "a", "u", "t", "h", "k", "e", "y", "=">>
    \o authkey \o <<"&", "t", "o", "r", "r", "e", "n", "t", "_", "p", "a", "s", "s", "=">>
    \o passkey

\* Duration.in_minutes(): int(total_seconds / 60), truncated towards zero
in_minutes(seconds) ==
    IF seconds >= 0 THEN seconds \div 60 ELSE -((-seconds) \div 60)

\* max(l, key=lambda x: x[1]): the first of the entries with the largest minute
MaxByDate(l) ==
    l[CHOOSE i \in 1..Len(l) :
          /\ \A j \in 1..Len(l) : l[j].minute <= l[i].minute
          /\ \A j \in 1..(i - 1) : l[j].minute < l[i].minute]

\* lines 233-245.  A page is [userid, authkey, passkey, rows]: the three script
\* variables (None when the page has none) and the [id^=torrent_] elements in
\* document order, each [id, owner, dated, minute]: the user id of its owner
\* link (None when it has no such link), whether it has a span, and the minute
\* the title of its first span names.  t is pendulum.now() in seconds.
get_torrent_link_from_html(html, t) ==
    IF html.userid = None \/ html.authkey = None \/ html.passkey = None
    THEN Raise("TypeError")
    ELSE IF \E i \in 1..Len(html.rows) : html.rows[i].owner = None
    THEN Raise("TypeError")
    ELSE LET Owned(row)    == row.owner = html.userid
             user_torrents == SelectSeq(html.rows, Owned)
         IN  IF \E i \in 1..Len(user_torrents) : ~user_torrents[i].dated
             THEN Raise("IndexError")
             ELSE IF user_torrents = <<>> THEN Raise("ValueError")
             ELSE LET newest == MaxByDate(user_torrents)
                  IN  IF in_minutes(t - 60 * newest.minute) < 2
                      THEN Ok(download_link(newest.id, html.authkey, html.passkey))
                      ELSE Raise("AssertionError")

\* a row but for its id: owned by the user, by another or by nobody named,
\* dated at some minute or without a span
RowShapes ==
    {[owner |-> o, dated |-> TRUE, minute |-> m] :
        o \in {Me, Other, None}, m \in 0..(MaxAge + MaxAhead)}
    \cup {[owner |-> o, dated |-> FALSE, minute |-> 0] : o \in {Me, Other, None}}

RowsOfLength(n) ==
    {[i \in 1..n |-> [id |-> str(i), owner |-> r[i].owner, dated |-> r[i].dated,
                      minute |-> r[i].minute]] :
        r \in [1..n -> RowShapes]}

Pages ==
    {[userid |-> u, authkey |-> AuthKey, passkey |-> PassKey, rows |-> r] :
        u \in {Me, None}, r \in UNION {RowsOfLength(n) : n \in 0..MaxRows}}

LandingUrl == <<"/", "t", "o", "r", "r", "e", "n", "t", "s", ".", "p", "h", "p">>

UploadArguments ==
    {("--cookies" :> c) @@ ("<input_form>" :> "form.pkl") @@ ("--delete-on-success" :> d) :
        c \in {"cookies.txt", "missing"}, d \in BOOLEAN}

\* the upload command
InitUpload ==
    /\ pc = "assert_inputs"
    /\ path = Missing
    /\ args0 \in UploadArguments
    /\ arguments = args0
    /\ disk \in {NoFile, OldFile}
    /\ disk0 = disk
    /\ Fresh

\* lines 287-288
AssertInputs ==
    /\ pc = "assert_inputs"
    /\ IF arguments["--cookies"] # "missing" /\ disk.exists
       THEN pc' = "post" /\ err' = err
       ELSE Raised("AssertionError")
    /\ UNCHANGED <<path, arguments, args0, calls, duration, offsets, shots, release_desc,
                   form, disk, disk0, response, now, link, result>>

\* line 289 with upload_form, lines 305-310: the form is loaded, the cookie
\* jar is loaded, the form is posted; any of the three may raise, and when
\* pickle.load does there is no form
PostForm ==
    /\ pc = "post"
    /\ \E e \in {"none", "UnpicklingError", "LoadError", "ConnectionError"} :
          IF e # "none"
          THEN /\ form' = IF e = "UnpicklingError" THEN form ELSE disk.content
               /\ Raised(e)
               /\ UNCHANGED <<calls, response>>
          ELSE \E status \in {200, 403, 500}, page \in Pages :
                  /\ form' = disk.content
                  /\ calls' = Append(calls, Call("tracker", status, TRUE))
                  /\ response' = [status_code |-> status, text |-> page, url |-> LandingUrl]
                  /\ err' = err
                  /\ pc' = "check_status"
    /\ UNCHANGED <<path, arguments, args0, duration, offsets, shots, release_desc,
                   disk, disk0, now, link, result>>

\* the unlink outside the try: its failure ends the command
CheckStatus_UnlinkEscalates ==
    /\ pc = "check_status"
    /\ IF response.status_code = 200
       THEN IF arguments["--delete-on-success"]
            THEN \E unlinked \in BOOLEAN :
                    /\ disk' = [disk EXCEPT !.exists = @ /\ ~unlinked,
                                            !.unlinks = @ + 1]
                    /\ IF unlinked
                       THEN err' = err /\ pc' = "return_link"
                       ELSE Raised("PermissionError")
            ELSE /\ disk' = disk
                 /\ err' = err
                 /\ pc' = "return_link"
       ELSE /\ Raised("RuntimeError")
            /\ disk' = disk
    /\ UNCHANGED <<path, arguments, args0, calls, duration, offsets, shots, release_desc,
                   form, disk0, response, now, link, result>>

\* lines 290-298: with a 200 and --delete-on-success, unlink() is called once;
\* it may fail (the file is then still there) and the bare except passes
CheckStatus ==
    /\ pc = "check_status"
    /\ IF response.status_code = 200
       THEN /\ err' = err
            /\ pc' = "return_link"
            /\ IF arguments["--delete-on-success"]
               THEN \E unlinked \in BOOLEAN :
                       disk' = [disk EXCEPT !.exists = @ /\ ~unlinked,
                                            !.unlinks = @ + 1]
               ELSE disk' = disk
       ELSE /\ Raised("RuntimeError")
            /\ disk' = disk
    /\ UNCHANGED <<path, arguments, args0, calls, duration, offsets, shots, release_desc,
                   form, disk0, response, now, link, result>>

\* the extraction's exception let through
ReturnLink_NoFallback ==
    /\ pc = "return_link"
    /\ \E second \in {0, 59} :
          /\ now' = 60 * NowMinute + second
          /\ link' = get_torrent_link_from_html(response.text, now')
          /\ IF link'.err = "none"
             THEN result' = link'.val /\ pc' = "done" /\ err' = err
             ELSE result' = result /\ Raised(link'.err)
    /\ UNCHANGED <<path, arguments, args0, calls, duration, offsets, shots,
                   release_desc, form, disk, disk0, response>>

\* lines 299-302
ReturnLink ==
    /\ pc = "return_link"
    /\ \E second \in {0, 59} :
          /\ now' = 60 * NowMinute + second
          /\ link' = get_torrent_link_from_html(response.text, now')
          /\ result' = IF link'.err = "none" THEN link'.val ELSE response.url
    /\ pc' = "done"
    /\ UNCHANGED <<path, arguments, args0, err, calls, duration, offsets, shots,
                   release_desc, form, disk, disk0, response>>

NextUpload == AssertInputs \/ PostForm \/ CheckStatus \/ ReturnLink

SpecUpload == InitUpload /\ [][NextUpload]_vars

----------------------------------------------------------------------------
(* Properties                                                              *)

Posted == response.status_code # 0

Expected == IF link.err = "none" THEN link.val ELSE response.url

\* C1: a response whose status is not 200 ends upload_command with an error
\* and nothing returned; a response whose status is 200 never ends it with an
\* error, and it returns the direct link when the extraction succeeded and the
\* response's URL when the extraction failed.
C1_UploadOutcome ==
    /\ (Posted /\ response.status_code # 200 /\ pc # "check_status")
          => (pc = "raised" /\ err = "RuntimeError" /\ result = None)
    /\ (Posted /\ response.status_code = 200)
          => (pc \in {"check_status", "return_link", "done"} /\ err = "none")
    /\ (pc = "done") => (response.status_code = 200 /\ result = Expected)

\* a 200 response whose newest own row is too old: the URL is returned
C1_Witness ==
    /\ pc = "done"
    /\ response.status_code = 200
    /\ link.err = "AssertionError"
    /\ result = response.url

Abs(x) == IF x < 0 THEN -x ELSE x

\* every row of the response's page has its owner link and its dated span
WellFormedRows ==
    \A i \in 1..Len(response.text.rows) :
        response.text.rows[i].owner # None /\ response.text.rows[i].dated

\* the rows of the response's page owned by the page's current user
OwnedRows ==
    LET page       == response.text
        Owned(row) == page.userid # None /\ row.owner = page.userid
    IN  SelectSeq(page.rows, Owned)

\* the ids of the owned rows that are the newest and within 2 minutes of now
RecentNewestIds ==
    {OwnedRows[i].id : i \in {k \in 1..Len(OwnedRows) :
        /\ \A j \in 1..Len(OwnedRows) : OwnedRows[j].minute <= OwnedRows[k].minute
        /\ Abs(now - 60 * OwnedRows[k].minute) < 2 * 60}}

\* C2: on a page of well-formed rows, get_torrent_link_from_html returns a
\* link, and then one for the id of a newest row of the current user, exactly
\* when that newest row is less than 2 minutes away from now, earlier or later;
\* otherwise it fails.
C2_LinkIffNewestWithinTwoMinutes ==
    (pc = "done" /\ WellFormedRows) =>
        /\ (link.err = "none") =>
              \E T \in RecentNewestIds :
                  link.val = download_link(T, response.text.authkey, response.text.passkey)
        /\ (RecentNewestIds # {}) => (link.err = "none")

Preprocessed == pc # "preprocessing"

Inferable == {"--type", "--media-type", "--codec", "--group"}

\* C3 as claimed, of the calls that return: preprocessing leaves every
\* supplied attribute as it was: content type, media type, codec and release
\* group that are not AUTO-DETECT, and a special-edition label that is present.
C3_ExplicitNeverChanged ==
    (Preprocessed /\ err = "none") =>
        /\ \A k \in Inferable : (args0[k] # AUTO_DETECT) => (arguments[k] = args0[k])
        /\ (args0["--special-edition"] # None)
              => (arguments["--special-edition"] = args0["--special-edition"])

ServiceMarked(name) ==
    Contains(name, Mark_AMZN) \/ Contains(name, Mark_Netflix) \/ Contains(name, Mark_NF)

\* C3 as amended: preprocessing leaves a supplied content type, media type,
\* codec and release group as they were; it leaves a supplied special-edition
\* label as it was unless the content type is Movies and the path's name holds
\* an AMZN, Netflix or .NF. marker.
C3_ExplicitKeptButEdition ==
    Preprocessed =>
        /\ \A k \in Inferable : (args0[k] # AUTO_DETECT) => (arguments[k] = args0[k])
        /\ (/\ args0["--special-edition"] # None
            /\ ~(arguments["--type"] = Movies /\ ServiceMarked(path.name)))
              => (arguments["--special-edition"] = args0["--special-edition"])

\* a supplied codec and a supplied label survive a name that would infer others
C3_Witness ==
    /\ pc = "create_torrent"
    /\ args0["--codec"] = x264
    /\ arguments["--codec"] = x264
    /\ arguments["--media-type"] = WEB_DL
    /\ Contains(path.name, Mark_HEVC)
    /\ args0["--special-edition"] = Unrated
    /\ arguments["--special-edition"] = Unrated

\* the codec was at its sentinel and preprocessing has inferred it
CodecInferred ==
    /\ Preprocessed
    /\ args0["--codec"] = AUTO_DETECT
    /\ arguments["--codec"] # AUTO_DETECT

Detected == autodetect_codec(path).val

NamesH264 == Contains(path.name, Mark_H264)

NamesH265 == Contains(path.name, Mark_H265) \/ Contains(path.name, Mark_HEVC)

\* C5 as claimed, of a media file that preprocessing accepts: for a WEB-DL
\* input with an inferred codec, a detected x264 or an H.264 marker in the name
\* gives 'h.264 Remux', and a detected x265 or an H.265 or HEVC marker in the
\* name gives 'h.265 Remux'.
C5_WebDlNormalised ==
    (CodecInferred /\ err = "none" /\ ~path.is_dir /\ arguments["--media-type"] = WEB_DL) =>
        /\ (Detected = x264 \/ NamesH264) => (arguments["--codec"] = h264_Remux)
        /\ (Detected = x265 \/ NamesH265) => (arguments["--codec"] = h265_Remux)

\* C5 as amended: for a WEB-DL input with an inferred codec, the codec is
\* 'h.264 Remux' when x264 was detected or the name holds an H.264 marker, and
\* the name holds no H.265 or HEVC marker; it is 'h.265 Remux' when the name
\* holds an H.265 or HEVC marker, or x265 was detected and the name holds no
\* H.264 marker.
C5_WebDlNormalisedUnlessBoth ==
    (CodecInferred /\ arguments["--media-type"] = WEB_DL) =>
        /\ ((Detected = x264 \/ NamesH264) /\ ~NamesH265)
              => (arguments["--codec"] = h264_Remux)
        /\ (NamesH265 \/ (Detected = x265 /\ ~NamesH264))
              => (arguments["--codec"] = h265_Remux)

\* a WEB-DL name with x264 in it, and the codec inferred as 'h.264 Remux'
C5_Witness ==
    /\ CodecInferred
    /\ pc = "create_torrent"
    /\ arguments["--media-type"] = WEB_DL
    /\ Detected = x264
    /\ ~NamesH264
    /\ arguments["--codec"] = h264_Remux

PositiveInt(s) == int(s).err = "none" /\ int(s).val >= 1

\* C6: preprocessing fails whenever the supplied screenshot count is not a
\* positive integer, and when it returns the count is an integer >= 1.
C6_CountPositive ==
    Preprocessed =>
        /\ (~PositiveInt(args0["--num-screens"])) => (err # "none")
        /\ (err = "none") => (arguments["--num-screens"] >= 1)

OffsetsComputed == Len(offsets) >= 1

InteriorIncreasing ==
    \A i \in 1..Len(offsets) :
        /\ 0 < offsets[i]
        /\ offsets[i] < duration
        /\ (i > 1) => (offsets[i - 1] < offsets[i])

\* C4 as claimed: for every duration and every count n >= 1 the offsets are
\* strictly increasing, each strictly above 0 and strictly below the duration.
C4_OffsetsInterior == OffsetsComputed => InteriorIncreasing

\* C4 as amended: for every count n >= 1 and every duration of at least n + 2
\* whole seconds the offsets are strictly increasing, each strictly above 0
\* and strictly below the duration.
C4_OffsetsInteriorWhenLong ==
    (OffsetsComputed /\ duration >= arguments["--num-screens"] + 2) => InteriorIncreasing

\* several offsets of a duration just long enough
C4_Witness ==
    /\ pc = "take_screenshot"
    /\ Len(offsets) >= 3
    /\ duration = Len(offsets) + 2

\* C9: a non-zero exit of ffprobe or of an ffmpeg invocation makes the
\* pipeline fail at that invocation: it is the last invocation made, no
\* further ffmpeg invocation or gallery upload follows it, and get_duration /
\* take_screenshot do not return to their caller.
C9_FailsAtInvocation ==
    \A i \in 1..Len(calls) :
        (calls[i].tool \in {"ffprobe", "ffmpeg"} /\ calls[i].rc # 0) =>
            /\ ~calls[i].returned
            /\ pc = "raised"
            /\ \A j \in (i + 1)..Len(calls) : calls[j].tool \notin {"ffmpeg", "gallery"}

Label == arguments["--special-edition"]

\* C7: in the form create_upload_form has assembled and written, a label
\* present after preprocessing sets 'remaster'; one outside known_editions is
\* in 'othereditions' with 'unknown' on and is not the 'remaster_title'; one
\* of known_editions is the 'remaster_title', with 'othereditions' empty and no
\* 'unknown'.  Without a label neither 'remaster' nor 'unknown' is set.
C7_EditionRouting ==
    (pc = "done") =>
        LET f == disk.content
        IN  IF Truthy(Label)
            THEN /\ "remaster" \in DOMAIN f
                 /\ f["remaster"] = on
                 /\ IF ~InList(Label, known_editions)
                    THEN /\ f["othereditions"] = Label
                         /\ "unknown" \in DOMAIN f
                         /\ f["unknown"] = on
                         /\ f["remaster_title"] # Label
                    ELSE /\ f["remaster_title"] = Label
                         /\ f["othereditions"] = <<>>
                         /\ "unknown" \notin DOMAIN f
            ELSE /\ "remaster" \notin DOMAIN f
                 /\ "unknown" \notin DOMAIN f

\* the label preprocessing sets for an AMZN name, routed as an unknown edition
C7_Witness ==
    /\ pc = "done"
    /\ args0["--special-edition"] = Unrated
    /\ Label = Amazon
    /\ disk.content["othereditions"] = Amazon
    /\ disk.content["unknown"] = on

\* C8: the form file is touched only by one unlink() after a 200 response
\* with --delete-on-success set, which at most removes it; with another status
\* or without the flag it is left as it was; and after an unlink() that failed
\* the command does not raise and returns the link or the response's URL.
C8_DeleteOnlyOnSuccess ==
    /\ (disk # disk0)
          => /\ response.status_code = 200
             /\ arguments["--delete-on-success"]
             /\ pc \in {"return_link", "done"}
             /\ disk = [disk0 EXCEPT !.exists = disk.exists, !.unlinks = 1]
    /\ (response.status_code # 200 \/ ~arguments["--delete-on-success"])
          => (disk = disk0)
    /\ (disk.unlinks > disk0.unlinks /\ disk.exists)
          => /\ pc \in {"return_link", "done"}
             /\ err = "none"
             /\ (pc = "done") => (result = Expected)

\* unlink() was called and failed, the form file is still there, and the
\* command has returned
C8_Witness ==
    /\ pc = "done"
    /\ response.status_code = 200
    /\ arguments["--delete-on-success"]
    /\ disk.unlinks = 1
    /\ disk.exists
    /\ disk = [disk0 EXCEPT !.unlinks = 1]
    /\ err = "none"
    /\ result = Expected

ClosedSets(f) ==
    /\ InList(f["type"], types)
    /\ InList(f["media"], media_types)
    /\ InList(f["encoder"], codecs)

\* C10: create_upload_form writes the form file at most once and as its last
\* step; a command that failed anywhere has left the file as it was; a file
\* that was written holds a type, a media type and a codec of their closed sets.
C10_WrittenOnceAtEnd ==
    /\ disk.writes <= 1
    /\ (pc # "done") => (disk = disk0)
    /\ (err # "none") => (disk = disk0)
    /\ (disk # disk0)
          => (disk.exists /\ disk.writes = 1 /\ disk.content = form /\ ClosedSets(disk.content))

\* an older form file overwritten by the finished command
C10_Witness ==
    /\ pc = "done"
    /\ disk0.exists
    /\ disk.writes = 1
    /\ disk.content # disk0.content
    /\ Len(calls) >= 4
====
